---- MODULE Spec2Model ----
(***************************************************************************)
(* Exa MCP client (exa-mcp-client.ts): callExa, the response decoder       *)
(* (strict JSON first, event-stream fallback) and parseSSEResponse.        *)
(*                                                                         *)
(* A text is a sequence of symbols.  A symbol is one character ("d", ":",  *)
(* " ", "\n", "1", "[", "]", ...) or one object literal written on a       *)
(* single line with no white space in it:                                  *)
(*   "{result}" is                                                         *)
(*     {"jsonrpc":"2.0","id":1,"result":{"content":[{"type":"text",        *)
(*      "text":"ok"}]}}                                                    *)
(*   "{nocontent}" is {"jsonrpc":"2.0","id":1,"result":{}}                 *)
(*   "{error}" is                                                          *)
(*     {"jsonrpc":"2.0","id":1,"error":{"code":400,"message":"Bad          *)
(*      request"}}                                                         *)
(*   "{nullerror}" is {"jsonrpc":"2.0","id":1,"error":null}                *)
(*   "{nullitem}" is {"jsonrpc":"2.0","id":1,"result":{"content":[null]}}  *)
(* An object literal begins with "{", so it never matches a character of   *)
(* the "data: " marker.                                                    *)
(***************************************************************************)
EXTENDS Integers, Sequences, FiniteSets, TLC

(* ---------------------------- bounds ----------------------------------- *)
MaxCalls == 2
MaxLines == 3
MaxTicks == 3
MaxItems == 3
TicksPerTimeout == 2

(* --------------------------- constants --------------------------------- *)
REQUEST_TIMEOUT_MS == 30000

NL == "\n"

DATA_PREFIX == <<"d", "a", "t", "a", ":", " ">>

DATA_PREFIX_LEN == 6

(* ------------------------- string helpers ------------------------------ *)
RECURSIVE IndexOf(_, _, _)
IndexOf(text, sym, from) ==
  IF from > Len(text) THEN 0
  ELSE IF text[from] = sym THEN from
  ELSE IndexOf(text, sym, from + 1)

RECURSIVE Split(_)
Split(text) ==
  LET k == IndexOf(text, NL, 1) IN
  IF k = 0 THEN <<text>>
  ELSE <<SubSeq(text, 1, k - 1)>> \o Split(SubSeq(text, k + 1, Len(text)))

StartsWith(line, prefix) ==
  /\ Len(line) >= Len(prefix)
  /\ SubSeq(line, 1, Len(prefix)) = prefix

Substring(line, start) == SubSeq(line, start + 1, Len(line))

RECURSIVE JoinWithNewline(_)
JoinWithNewline(parts) ==
  IF Len(parts) = 0 THEN <<>>
  ELSE IF Len(parts) = 1 THEN Head(parts)
  ELSE Head(parts) \o <<NL>> \o JoinWithNewline(Tail(parts))

RECURSIVE Join(_)
Join(parts) ==
  IF Len(parts) = 0 THEN <<>> ELSE Head(parts) \o Join(Tail(parts))

(* ----------------------------- JSON.parse ------------------------------ *)
(* The JSON grammar restricted to the symbols of the model: white space is *)
(* " " and "\n"; a value is a number (digits "1"), an array "[" "]" with   *)
(* at most one element (there is no comma symbol) or an object literal.    *)
ObjectLiterals ==
  {"{result}", "{nocontent}", "{error}", "{nullerror}", "{nullitem}"}

(* the JSON value null *)
Null == [t |-> "null"]

IsNull(value) == "t" \in DOMAIN value /\ value.t = "null"

ObjectValue(sym) ==
  IF sym = "{result}"
  THEN [t |-> "obj", jsonrpc |-> "2.0", id |-> 1,
        result |-> [content |-> <<[type |-> "text", text |-> <<"ok">>]>>]]
  ELSE IF sym = "{nocontent}"
  THEN [t |-> "obj", jsonrpc |-> "2.0", id |-> 1, result |-> <<>>]
  ELSE IF sym = "{nullerror}"
  THEN [t |-> "obj", jsonrpc |-> "2.0", id |-> 1, error |-> Null]
  ELSE IF sym = "{nullitem}"
  THEN [t |-> "obj", jsonrpc |-> "2.0", id |-> 1,
        result |-> [content |-> <<Null>>]]
  ELSE [t |-> "obj", jsonrpc |-> "2.0", id |-> 1,
        error |-> [code |-> 400, message |-> <<"Bad request">>]]

IsWhitespace(sym) == sym \in {" ", NL}

RECURSIVE SkipWs(_, _)
SkipWs(s, i) ==
  IF i <= Len(s) /\ IsWhitespace(s[i]) THEN SkipWs(s, i + 1) ELSE i

(* the messages of the runtime's JSON.parse (V8), for a source shorter     *)
(* than 21 characters; a position counts characters from 0                 *)
UnexpectedEnd == <<"Unexpected end of JSON input">>

UnexpectedToken(s, i) ==
  IF i > Len(s) THEN UnexpectedEnd
  ELSE IF s[i] = "1"
  THEN <<"Unexpected number in JSON at position ", ToString(i - 1)>>
  ELSE <<"Unexpected token '", s[i], "', \"">> \o s
         \o <<"\" is not valid JSON">>

ExpectedCommaOrRBrack(i) ==
  <<"Expected ',' or ']' after array element in JSON at position ",
    ToString(i - 1)>>

ExponentMissingNumber(i) ==
  <<"Exponent part is missing a number in JSON at position ",
    ToString(i - 1)>>

UnexpectedNonWhitespace(i) ==
  <<"Unexpected non-whitespace character after JSON at position ",
    ToString(i - 1)>>

ParseFail(message) ==
  [ok |-> FALSE, next |-> 0, value |-> [t |-> "none"], message |-> message]

RECURSIVE Digits(_, _, _)
Digits(s, i, acc) ==
  IF i <= Len(s) /\ s[i] = "1" THEN Digits(s, i + 1, acc * 10 + 1)
  ELSE [next |-> i, n |-> acc]

RECURSIVE Pow10(_)
Pow10(k) == IF k = 0 THEN 1 ELSE 10 * Pow10(k - 1)

(* digits, then an optional exponent "e" digits *)
ParseNumber(s, i, acc) ==
  LET m == Digits(s, i, acc) IN
  IF m.next <= Len(s) /\ s[m.next] = "e"
  THEN LET x == Digits(s, m.next + 1, 0) IN
       IF x.next = m.next + 1 THEN ParseFail(ExponentMissingNumber(x.next))
       ELSE [ok |-> TRUE, next |-> x.next,
             value |-> [t |-> "num", n |-> m.n * Pow10(x.n)]]
  ELSE [ok |-> TRUE, next |-> m.next, value |-> [t |-> "num", n |-> m.n]]

RECURSIVE ParseValue(_, _)
ParseValue(s, i) ==
  IF i > Len(s) THEN ParseFail(UnexpectedEnd)
  ELSE IF s[i] = "1" THEN ParseNumber(s, i, 0)
  ELSE IF s[i] \in ObjectLiterals
    THEN [ok |-> TRUE, next |-> i + 1, value |-> ObjectValue(s[i])]
  ELSE IF s[i] = "["
    THEN LET j == SkipWs(s, i + 1) IN
         IF j <= Len(s) /\ s[j] = "]"
         THEN [ok |-> TRUE, next |-> j + 1,
               value |-> [t |-> "arr", items |-> <<>>]]
         ELSE LET r == ParseValue(s, j) IN
              IF ~r.ok THEN r
              ELSE LET k == SkipWs(s, r.next) IN
                   IF k <= Len(s) /\ s[k] = "]"
                   THEN [ok |-> TRUE, next |-> k + 1,
                         value |-> [t |-> "arr", items |-> <<r.value>>]]
                   ELSE ParseFail(ExpectedCommaOrRBrack(k))
  ELSE IF s[i] = "t"
    (* the scan of the literal true stops at the first other character *)
    THEN ParseFail(UnexpectedToken(s, i + 1))
  ELSE ParseFail(UnexpectedToken(s, i))

JSONParse(s) ==
  LET r == ParseValue(s, SkipWs(s, 1)) IN
  IF ~r.ok
  THEN [ok |-> FALSE, value |-> [t |-> "none"], message |-> r.message]
  ELSE LET k == SkipWs(s, r.next) IN
       IF k = Len(s) + 1 THEN [ok |-> TRUE, value |-> r.value]
       ELSE [ok |-> FALSE, value |-> [t |-> "none"],
             message |-> UnexpectedNonWhitespace(k)]

(* ------------------------ completions and errors ----------------------- *)
Return(v) == [kind |-> "return", value |-> v]

Throw(e) == [kind |-> "throw", error |-> e]

Pending == [kind |-> "pending"]

MkError(cls, name, message) ==
  [cls |-> cls, name |-> name, message |-> message]

NoError == MkError("none", "none", <<>>)

SyntaxError(message) == MkError("SyntaxError", "SyntaxError", message)

NoDataFieldError ==
  MkError("Error", "Error", <<"No data: field found in SSE response">>)

(* --------------------------- parseSSEResponse -------------------------- *)
DataLines(lines) ==
  LET sel == SelectSeq(lines, LAMBDA l : StartsWith(l, DATA_PREFIX)) IN
  [i \in 1..Len(sel) |-> Substring(sel[i], DATA_PREFIX_LEN)]

FirstValidJSON(dataLines, i) ==
  LET valid == {k \in 1..Len(dataLines) : JSONParse(dataLines[k]).ok} IN
  IF valid = {} THEN Return(Join(dataLines))
  ELSE Return(dataLines[CHOOSE k \in valid : \A m \in valid : k <= m])

RECURSIVE LastValidJSON(_, _)
LastValidJSON(dataLines, i) ==
  IF i < 1 THEN Return(Join(dataLines))
  ELSE IF JSONParse(dataLines[i]).ok THEN Return(dataLines[i])
  ELSE LastValidJSON(dataLines, i - 1)

parseSSEResponse(text) ==
  LET dataLines == DataLines(Split(text)) IN
  IF Len(dataLines) = 0 THEN Throw(NoDataFieldError)
  ELSE LastValidJSON(dataLines, Len(dataLines))

(* --------------- callExa: decoding of the response text ---------------- *)
DecodeBodySSEFirst(text) ==
  LET jsonData == parseSSEResponse(text)
      parsed == JSONParse(jsonData.value)
      strict == JSONParse(text) IN
  IF jsonData.kind = "return" /\ parsed.ok
  THEN [completion |-> Return(parsed.value), sseRan |-> TRUE]
  ELSE [completion |-> IF strict.ok THEN Return(strict.value)
                       ELSE Throw(SyntaxError(strict.message)),
        sseRan |-> TRUE]

DecodeBody(text) ==
  LET strict == JSONParse(text) IN
  IF strict.ok
  THEN [completion |-> Return(strict.value), sseRan |-> FALSE]
  ELSE LET jsonData == parseSSEResponse(text) IN
       IF jsonData.kind = "throw"
       THEN [completion |-> jsonData, sseRan |-> TRUE]
       ELSE LET parsed == JSONParse(jsonData.value) IN
            [completion |-> IF parsed.ok THEN Return(parsed.value)
                            ELSE Throw(SyntaxError(parsed.message)),
             sseRan |-> TRUE]

(* --------------------------- extractTextContent ------------------------ *)
RECURSIVE JoinSep(_, _)
JoinSep(parts, sep) ==
  IF Len(parts) = 0 THEN <<>>
  ELSE IF Len(parts) = 1 THEN parts[1]
  ELSE parts[1] \o sep \o JoinSep(Tail(parts), sep)

ApiError(error) ==
  MkError("Error", "Error",
          <<"Exa API error: ", ToString(error.code), " - ">>
            \o error.message)

NoContentError == MkError("Error", "Error", <<"No content in response">>)

(* `"error" in response` on a value that is not an object *)
InOperatorTypeError(response) ==
  MkError("TypeError", "TypeError",
          <<"Cannot use 'in' operator to search for 'error' in ",
            ToString(response.n)>>)

(* a property of null is read: response.error.code, item.type, item.text *)
NullPropertyTypeError(property) ==
  MkError("TypeError", "TypeError",
          <<"Cannot read properties of null (reading '", property, "')">>)

HasContent(response) ==
  /\ "result" \in DOMAIN response
  /\ "content" \in DOMAIN response.result

HasNullItem(content) == \E k \in 1..Len(content) : IsNull(content[k])

TextItems(content) ==
  LET kept == SelectSeq(content, LAMBDA item : item.type = "text") IN
  [k \in 1..Len(kept) |-> kept[k].text]

ExtractEmptyContentAsMissing(response) ==
  IF response.t = "num" THEN Throw(InOperatorTypeError(response))
  ELSE IF "error" \in DOMAIN response
    THEN IF IsNull(response.error)
         THEN Throw(NullPropertyTypeError("code"))
         ELSE Throw(ApiError(response.error))
  ELSE IF ~HasContent(response) \/ Len(response.result.content) = 0
    THEN Throw(NoContentError)
  ELSE IF HasNullItem(response.result.content)
    THEN Throw(NullPropertyTypeError("type"))
  ELSE Return(JoinSep(TextItems(response.result.content), <<NL, NL>>))

ExtractResultBeforeError(response) ==
  IF response.t = "num" THEN Throw(InOperatorTypeError(response))
  ELSE IF HasContent(response)
    THEN IF HasNullItem(response.result.content)
         THEN Throw(NullPropertyTypeError("type"))
         ELSE Return(JoinSep(TextItems(response.result.content),
                             <<NL, NL>>))
  ELSE IF "error" \in DOMAIN response
    THEN IF IsNull(response.error)
         THEN Throw(NullPropertyTypeError("code"))
         ELSE Throw(ApiError(response.error))
  ELSE Throw(NoContentError)

ExtractAllItems(response) ==
  IF response.t = "num" THEN Throw(InOperatorTypeError(response))
  ELSE IF "error" \in DOMAIN response
    THEN IF IsNull(response.error)
         THEN Throw(NullPropertyTypeError("code"))
         ELSE Throw(ApiError(response.error))
  ELSE IF ~HasContent(response) THEN Throw(NoContentError)
  ELSE IF HasNullItem(response.result.content)
    THEN Throw(NullPropertyTypeError("text"))
  ELSE Return(JoinSep([k \in 1..Len(response.result.content) |->
                         response.result.content[k].text], <<NL, NL>>))

extractTextContent(response) ==
  IF response.t = "num" THEN Throw(InOperatorTypeError(response))
  ELSE IF "error" \in DOMAIN response
    THEN IF IsNull(response.error)
         THEN Throw(NullPropertyTypeError("code"))
         ELSE Throw(ApiError(response.error))
  ELSE IF ~HasContent(response) THEN Throw(NoContentError)
  ELSE IF HasNullItem(response.result.content)
    THEN Throw(NullPropertyTypeError("type"))
  ELSE Return(JoinSep(TextItems(response.result.content), <<NL, NL>>))

(* ------------------------------ transport ------------------------------ *)
(* What the HTTP exchange can answer with: a status line, a body, or a     *)
(* rejection of fetch() or of response.text().                             *)
Responses ==
  { [status |-> 200, statusText |-> "OK"],
    [status |-> 299, statusText |-> ""],
    [status |-> 300, statusText |-> "Multiple Choices"],
    [status |-> 400, statusText |-> "Bad Request"] }

(* the responses given to calls that overlap *)
OverlapResponses ==
  { [status |-> 200, statusText |-> "OK"],
    [status |-> 400, statusText |-> "Bad Request"] }

NoResponse == [status |-> 0, statusText |-> ""]

Ok(status) == status >= 200 /\ status < 300

AbortError ==
  MkError("DOMException", "AbortError", <<"The operation was aborted">>)

TransportErrors ==
  { AbortError,
    MkError("TypeError", "TypeError", <<"fetch failed">>),
    MkError("DOMException", "InvalidStateError", <<"Body is unusable">>),
    MkError("Error", "AbortError", <<"The user aborted a request.">>) }

(* the rejections given to calls that overlap *)
OverlapErrors ==
  { MkError("TypeError", "TypeError", <<"fetch failed">>) }

D(payload) == DATA_PREFIX \o payload

CallBodies ==
  { <<"{result}">>,
    <<"{error}", NL>>,
    <<"e", NL>> \o D(<<"{result}">>) \o <<NL, NL>>,
    <<"e", NL>>,
    D(<<"[">>) \o <<NL>> \o D(<<"]">>),
    D(<<"[">>) \o <<NL>> \o D(<<"[">>),
    <<"{nocontent}">>,
    <<"{nullerror}">>,
    <<"{nullitem}">>,
    <<"1">> }

(* the bodies given to calls that overlap *)
OverlapBodies ==
  { <<"{result}">>,
    <<"e", NL>> \o D(<<"{result}">>) \o <<NL, NL>>,
    D(<<"[">>) \o <<NL>> \o D(<<"]">>) }

(* ------------------- the endpoint and the tool functions --------------- *)
EXA_BASE_URL == "https://mcp.exa.ai/mcp"

EXA_TOOLS_WithoutAdvanced ==
  JoinSep(<< <<"web_search_exa">>, <<"get_code_context_exa">>,
             <<"company_research_exa">>, <<"people_search_exa">> >>,
          <<",">>)

(* the five identifiers joined by ",": a text whose symbols are the        *)
(* identifiers and the separators                                          *)
EXA_TOOLS ==
  JoinSep(<< <<"web_search_exa">>, <<"web_search_advanced_exa">>,
             <<"get_code_context_exa">>, <<"company_research_exa">>,
             <<"people_search_exa">> >>,
          <<",">>)

EXA_URL == <<EXA_BASE_URL, "?tools=">> \o EXA_TOOLS

DEFAULT_NUM_RESULTS == 10

(* A params object is a record whose domain is the set of keys that hold a *)
(* value; a key that is missing or undefined is outside the domain (the    *)
(* code cannot tell the two apart, and JSON.stringify drops both).         *)
Has(params, key) == key \in DOMAIN params

(* params[key] ?? dflt *)
NullishCoalesce(params, key, dflt) ==
  IF Has(params, key) THEN params[key] ELSE dflt

(* if (params[key] !== undefined) args[key] = params[key] *)
CopyIfDefined(args, params, key) ==
  IF Has(params, key) THEN args @@ (key :> params[key]) ELSE args

(* the two arguments a tool function passes to callExa *)
ToolsCall(name, arguments) ==
  [method |-> "tools/call",
   params |-> [name |-> name, arguments |-> arguments]]

(* lines 331-337 and 363-369: the arguments of an advanced search *)
AdvancedArgs(params, category) ==
  CopyIfDefined(
    CopyIfDefined(
      [query |-> params.query,
       category |-> category,
       numResults |-> NullishCoalesce(params, "numResults",
                                      DEFAULT_NUM_RESULTS)],
      params, "startPublishedDate"),
    params, "endPublishedDate")

webSearch(params) == ToolsCall("web_search_exa", params)

codeSearch(params) == ToolsCall("get_code_context_exa", params)

companyResearch(params) == ToolsCall("company_research_exa", params)

twitterSearchTruthyDefault(params) ==
  ToolsCall("web_search_advanced_exa",
    CopyIfDefined(
      CopyIfDefined(
        [query |-> params.query,
         category |-> "tweet",
         numResults |-> IF Has(params, "numResults")
                           /\ params.numResults # 0
                        THEN params.numResults ELSE DEFAULT_NUM_RESULTS],
        params, "startPublishedDate"),
      params, "endPublishedDate"))

twitterSearch(params) ==
  ToolsCall("web_search_advanced_exa", AdvancedArgs(params, "tweet"))

peopleSearch(params) == ToolsCall("people_search_exa", params)

financialSearch(params) ==
  ToolsCall("web_search_advanced_exa",
            AdvancedArgs(params, "financial report"))

(* ------------------------- index.ts: the tools ------------------------- *)
TOOLS_PeopleBeforeTwitter ==
  << [name |-> "exa_web_search", fn |-> "webSearch"],
     [name |-> "exa_code_search", fn |-> "codeSearch"],
     [name |-> "exa_company_research", fn |-> "companyResearch"],
     [name |-> "exa_people_search", fn |-> "peopleSearch"],
     [name |-> "exa_twitter_search", fn |-> "twitterSearch"],
     [name |-> "exa_financial_report_search", fn |-> "financialSearch"] >>

TOOLS ==
  << [name |-> "exa_web_search", fn |-> "webSearch"],
     [name |-> "exa_code_search", fn |-> "codeSearch"],
     [name |-> "exa_company_research", fn |-> "companyResearch"],
     [name |-> "exa_twitter_search", fn |-> "twitterSearch"],
     [name |-> "exa_people_search", fn |-> "peopleSearch"],
     [name |-> "exa_financial_report_search", fn |-> "financialSearch"] >>

ToolNames == [k \in 1..Len(TOOLS) |-> TOOLS[k].name]

(* the function wrapped by the execute of the tool called `name` *)
ToolFn(name) ==
  TOOLS[CHOOSE k \in 1..Len(TOOLS) : TOOLS[k].name = name].fn

(* fn(params) up to its call of callExa *)
Invoke(fn, params) ==
  CASE fn = "webSearch" -> webSearch(params)
    [] fn = "codeSearch" -> codeSearch(params)
    [] fn = "companyResearch" -> companyResearch(params)
    [] fn = "twitterSearch" -> twitterSearch(params)
    [] fn = "peopleSearch" -> peopleSearch(params)
    [] fn = "financialSearch" -> financialSearch(params)

(* the message wrapExecute reports: error.message of an Error, String(e)   *)
(* of any other thrown value (a thrown string is modelled by its text)     *)
IsErrorInstance(error) ==
  error.cls \in {"Error", "TypeError", "SyntaxError", "DOMException"}

ErrorMessage(error) ==
  IF IsErrorInstance(error) THEN error.message ELSE error.message

WrapExecuteNoFlag(call) ==
  [call EXCEPT !.host =
     IF call.result.kind = "return"
     THEN Return([content |-> <<[type |-> "text",
                                 text |-> call.result.value]>>])
     ELSE Return([content |-> <<[type |-> "text",
                                 text |-> <<"Error: ">>
                                   \o ErrorMessage(call.result.error)]>>])]

(* the execute function of a tool, index.ts lines 34-45, once fn settled *)
WrapExecute(call) ==
  [call EXCEPT !.host =
     IF call.result.kind = "return"
     THEN Return([content |-> <<[type |-> "text",
                                 text |-> call.result.value]>>])
     ELSE Return([content |-> <<[type |-> "text",
                                 text |-> <<"Error: ">>
                                   \o ErrorMessage(call.result.error)]>>,
                  isError |-> TRUE])]

(* ------------------------------- callExa ------------------------------- *)
VARIABLES requestIdCounter, calls, now, microtasks, dIn, dOp, dOut,
          xIn, xOp, xOut, registered

vars ==
  <<requestIdCounter, calls, now, microtasks, dIn, dOp, dOut,
    xIn, xOp, xOut, registered>>

extractVars == <<xIn, xOp, xOut>>

callVars == <<requestIdCounter, calls, now, microtasks>>

decodeVars == <<dIn, dOp, dOut>>

TickMs == REQUEST_TIMEOUT_MS \div TicksPerTimeout

PreIncrementByTwo(counter) ==
  [counter |-> counter + 2, value |-> counter + 2]

PostIncrement(counter) == [counter |-> counter + 1, value |-> counter]

PreIncrement(counter) == [counter |-> counter + 1, value |-> counter + 1]

HttpErrorNoReason(response) ==
  MkError("Error", "Error", <<"HTTP error: ", ToString(response.status)>>)

HttpError(response) ==
  MkError("Error", "Error",
          <<"HTTP error: ", ToString(response.status), " ",
            response.statusText>>)

TimeoutErrorMs ==
  MkError("Error", "Error",
          <<"Exa request timed out after ",
            ToString(REQUEST_TIMEOUT_MS), "s">>)

TimeoutError ==
  MkError("Error", "Error",
          <<"Exa request timed out after ",
            ToString(REQUEST_TIMEOUT_MS \div 1000), "s">>)

IsAbortError(error) ==
  error.cls = "DOMException" /\ error.name = "AbortError"

CatchBlockAlwaysTimeout(error) == Throw(TimeoutError)

CatchBlock(error) ==
  IF IsAbortError(error) THEN Throw(TimeoutError) ELSE Throw(error)

SetTimeout(delay) == [state |-> "armed", deadline |-> now + delay]

ClearTimeout(timer) ==
  IF timer.state = "armed" THEN [state |-> "cleared", deadline |-> 0]
  ELSE timer

FinallyBlockOnReturnOnly(call) ==
  IF call.outcome.kind = "return"
  THEN [call EXCEPT !.timer = ClearTimeout(call.timer)]
  ELSE call

FinallyBlock(call) == [call EXCEPT !.timer = ClearTimeout(call.timer)]

(* the tool function that awaited callExa (webSearch, ..., lines 295-299): *)
(* a rejection propagates, a response goes through extractTextContent     *)
ToolFunctionSwallowsFailure(call) ==
  [call EXCEPT !.result =
     IF call.outcome.kind = "return"
     THEN LET text == extractTextContent(call.outcome.value) IN
          IF text.kind = "return" THEN text ELSE Return(<<>>)
     ELSE call.outcome]

ToolFunction(call) ==
  [call EXCEPT !.result =
     IF call.outcome.kind = "return"
     THEN extractTextContent(call.outcome.value)
     ELSE call.outcome]

FailedWithRetry(call, error) ==
  IF call.sends < 2
  THEN [call EXCEPT !.pc = "fetch", !.sends = 2, !.response = NoResponse,
                    !.bodyRead = FALSE]
  ELSE FinallyBlock([call EXCEPT !.pc = "done", !.caught = error,
                                 !.outcome = CatchBlock(error)])

(* the try block threw `error`: catch, then finally *)
Failed(call, error) ==
  FinallyBlock([call EXCEPT !.pc = "done", !.caught = error,
                            !.outcome = CatchBlock(error)])

(* the try block returned `value`: finally only *)
Returned(call, value) ==
  FinallyBlock([call EXCEPT !.pc = "done", !.outcome = Return(value)])

(* the awaited promise (of fetchFn, of response.text()) rejected with     *)
(* `error`, which the await throws inside the try block                   *)
Rejected(call, error) == Failed([call EXCEPT !.rejection = error], error)

(* lines 222-227: the request object; lines 233-241: what fetchFn is given *)
ExaRequest(requestId, method, params) ==
  [jsonrpc |-> "2.0", id |-> requestId, method |-> method, params |-> params]

FetchArgs(request) ==
  [url |-> EXA_URL, method |-> "POST", body |-> request]

NewCall(requestId, tool, params) ==
  [ id |-> requestId, tool |-> tool, params |-> params,
    sent |-> LET c == Invoke(ToolFn(tool), params) IN
             FetchArgs(ExaRequest(requestId, c.method, c.params)),
    pc |-> "fetch",
    timer |-> SetTimeout(REQUEST_TIMEOUT_MS), aborted |-> FALSE,
    response |-> NoResponse, bodyRead |-> FALSE, text |-> <<>>,
    decoded |-> FALSE, sseRan |-> FALSE,
    rejection |-> NoError, caught |-> NoError, outcome |-> Pending,
    sends |-> 1, result |-> Pending, host |-> Pending ]

(* The microtask queue: the continuations of settled promises, run first   *)
(* in, first out before the event loop takes its next task.  When callExa  *)
(* settles, the tool function that awaits it (line 295) is queued; when    *)
(* the tool function settles, the execute that awaits it (index.ts line    *)
(* 36) is queued; when response.text() returns a promise that is already   *)
(* settled, the rest of callExa (line 247 onwards) is queued.              *)
Job(kind, i) == [kind |-> kind, call |-> i]

(* callExa of call i has settled in this step, or not *)
Settle(i) ==
  microtasks' =
    IF calls[i].pc # "done" /\ calls'[i].pc = "done"
    THEN Append(microtasks, Job("tool", i))
    ELSE microtasks

(* the rest of callExa after `await response.text()` is in the queue *)
BodyQueued(i) ==
  \E k \in 1..Len(microtasks) :
    microtasks[k].kind = "text" /\ microtasks[k].call = i

(* callExa takes any fetchFn, so a promise of the transport (of fetchFn,   *)
(* of response.text()) settles from a task or from a microtask: the        *)
(* continuation of callExa that awaits it runs at any point of the queue,  *)
(* whatever jobs of other calls wait there.  A timer callback is a task of *)
(* its own and the clock moves between tasks: they wait until the queue is *)
(* empty.                                                                  *)
TurnEnded == microtasks = <<>>

(* callExa is invoked: lines 220-241, up to the await of fetchFn *)
(* (a call starts only while its deadline lies within the horizon) *)
StartCall(tool, params) ==
  LET inc == PreIncrement(requestIdCounter) IN
    /\ now + REQUEST_TIMEOUT_MS <= MaxTicks * TickMs
    /\ requestIdCounter' = inc.counter
    /\ calls' = Append(calls, NewCall(inc.value, tool, params))

(* the tools and params of calls that overlap *)
OverlapInvocations ==
  { [tool |-> "exa_web_search", params |-> [query |-> "exa"]],
    [tool |-> "exa_twitter_search",
     params |-> [query |-> "exa", numResults |-> 0]] }

(* callExa is invoked by a tool function, through the execute of its tool *)
CallExa ==
  /\ Len(calls) < MaxCalls
  /\ \E inv \in OverlapInvocations : StartCall(inv.tool, inv.params)
  /\ UNCHANGED <<now, microtasks, decodeVars, extractVars, registered>>

(* The exchange is given controller.signal (line 240), and the transport   *)
(* observes it, as the fetch contract has it (the tool functions pass no   *)
(* fetchFn and go through the runtime's fetch): once the signal is aborted *)
(* the pending promise (of fetch, or of response.text()) settles only by   *)
(* the AbortError rejection.                                               *)
SignalAllows(call) == ~call.aborted

(* lines 243-247 once fetchFn has given `response` *)
ResponseReceived(call, response) ==
  LET c == [call EXCEPT !.response = response] IN
    IF ~Ok(response.status) THEN Failed(c, HttpError(response))
    ELSE [c EXCEPT !.pc = "text", !.bodyRead = TRUE]

(* fetchFn resolves with a response: lines 243-247.  `settled` tells     *)
(* whether the promise response.text() returns is settled already (a     *)
(* fetchFn that holds the body, such as the mock of the tests) or is     *)
(* settled by the transport later.                                       *)
FetchResolve(i, response, settled) ==
  /\ calls[i].pc = "fetch"
  /\ SignalAllows(calls[i])
  /\ calls' = [calls EXCEPT ![i] = ResponseReceived(@, response)]
  /\ IF Ok(response.status) /\ settled
     THEN microtasks' = Append(microtasks, Job("text", i))
     ELSE Settle(i)
  /\ UNCHANGED <<requestIdCounter, now, decodeVars, extractVars, registered>>

(* fetchFn rejects: lines 256-263 *)
FetchReject(i, error) ==
  /\ calls[i].pc = "fetch"
  /\ SignalAllows(calls[i])
  /\ calls' = [calls EXCEPT ![i] = Rejected(@, error)]
  /\ Settle(i)
  /\ UNCHANGED <<requestIdCounter, now, decodeVars, extractVars, registered>>

(* lines 247-263 once response.text() has given `body` *)
BodyReceived(call, body) ==
  LET d == DecodeBody(body)
      c == [call EXCEPT !.text = body, !.decoded = TRUE,
                        !.sseRan = d.sseRan] IN
    IF d.completion.kind = "throw" THEN Failed(c, d.completion.error)
    ELSE Returned(c, d.completion.value)

(* response.text() resolves with the body: lines 247-255 *)
TextResolve(i, body) ==
  /\ calls[i].pc = "text"
  /\ ~BodyQueued(i)
  /\ SignalAllows(calls[i])
  /\ calls' = [calls EXCEPT ![i] = BodyReceived(@, body)]
  /\ Settle(i)
  /\ UNCHANGED <<requestIdCounter, now, decodeVars, extractVars, registered>>

(* response.text() rejects: lines 256-263 *)
TextReject(i, error) ==
  /\ calls[i].pc = "text"
  /\ ~BodyQueued(i)
  /\ SignalAllows(calls[i])
  /\ calls' = [calls EXCEPT ![i] = Rejected(@, error)]
  /\ Settle(i)
  /\ UNCHANGED <<requestIdCounter, now, decodeVars, extractVars, registered>>

TimerFireSharedController(i) ==
  /\ TurnEnded
  /\ calls[i].timer.state = "armed"
  /\ now >= calls[i].timer.deadline
  /\ calls' = [j \in 1..Len(calls) |->
       IF j = i
       THEN [calls[j] EXCEPT !.timer = [state |-> "fired", deadline |-> 0],
                             !.aborted = TRUE]
       ELSE [calls[j] EXCEPT !.aborted = TRUE]]
  /\ UNCHANGED <<requestIdCounter, now, microtasks, decodeVars, extractVars,
                 registered>>

TimerFireWithoutAbort(i) ==
  /\ TurnEnded
  /\ calls[i].timer.state = "armed"
  /\ now >= calls[i].timer.deadline
  /\ calls' = [calls EXCEPT ![i].timer = [state |-> "fired", deadline |-> 0]]
  /\ UNCHANGED <<requestIdCounter, now, microtasks, decodeVars, extractVars,
                 registered>>

(* the timer callback of line 230 runs: controller.abort() *)
TimerFire(i) ==
  /\ TurnEnded
  /\ calls[i].timer.state = "armed"
  /\ now >= calls[i].timer.deadline
  /\ calls' = [calls EXCEPT ![i].timer = [state |-> "fired", deadline |-> 0],
                            ![i].aborted = TRUE]
  /\ UNCHANGED <<requestIdCounter, now, microtasks, decodeVars, extractVars,
                 registered>>

(* the aborted exchange rejects the pending await with an AbortError *)
AbortReject(i) ==
  /\ calls[i].pc \in {"fetch", "text"}
  /\ calls[i].aborted
  /\ calls' = [calls EXCEPT ![i] = Failed(calls[i], AbortError)]
  /\ Settle(i)
  /\ UNCHANGED <<requestIdCounter, now, decodeVars, extractVars, registered>>

(* the rest of callExa runs from the queue, response.text() having been  *)
(* resolved with `body` when it was called: lines 247-255                *)
RunTextResolved(body) ==
  /\ microtasks # <<>>
  /\ Head(microtasks).kind = "text"
  /\ LET i == Head(microtasks).call IN
       /\ calls' = [calls EXCEPT ![i] = BodyReceived(@, body)]
       /\ microtasks' = Append(Tail(microtasks), Job("tool", i))
  /\ UNCHANGED <<requestIdCounter, now, decodeVars, extractVars, registered>>

(* the same, response.text() having been rejected: lines 256-263 *)
RunTextRejected(error) ==
  /\ microtasks # <<>>
  /\ Head(microtasks).kind = "text"
  /\ LET i == Head(microtasks).call IN
       /\ calls' = [calls EXCEPT ![i] = Rejected(@, error)]
       /\ microtasks' = Append(Tail(microtasks), Job("tool", i))
  /\ UNCHANGED <<requestIdCounter, now, decodeVars, extractVars, registered>>

(* the queued rest of a callExa runs *)
RunText(bodies, errors) ==
  \/ \E b \in bodies : RunTextResolved(b)
  \/ \E e \in errors : RunTextRejected(e)

(* the continuation of a tool function runs: lines 295-299 *)
RunToolFunction ==
  /\ microtasks # <<>>
  /\ Head(microtasks).kind = "tool"
  /\ LET i == Head(microtasks).call IN
       /\ calls' = [calls EXCEPT ![i] = ToolFunction(@)]
       /\ microtasks' = Append(Tail(microtasks), Job("execute", i))
  /\ UNCHANGED <<requestIdCounter, now, decodeVars, extractVars, registered>>

(* the continuation of an execute runs: index.ts lines 36-45 *)
RunExecute ==
  /\ microtasks # <<>>
  /\ Head(microtasks).kind = "execute"
  /\ LET i == Head(microtasks).call IN
       calls' = [calls EXCEPT ![i] = WrapExecute(@)]
  /\ microtasks' = Tail(microtasks)
  /\ UNCHANGED <<requestIdCounter, now, decodeVars, extractVars, registered>>

(* time passes, up to the horizon of the model *)
Tick ==
  /\ TurnEnded
  /\ now < MaxTicks * TickMs
  /\ now' = now + TickMs
  /\ UNCHANGED <<requestIdCounter, calls, microtasks, decodeVars, extractVars,
                 registered>>

NoDecode == [completion |-> Pending, sseRan |-> FALSE]

NoEnvelope == [t |-> "none"]

(* the parts of the state a specification does not use stay as they are *)
CallsIdle ==
  requestIdCounter = 0 /\ calls = <<>> /\ now = 0 /\ microtasks = <<>>

DecodeIdle == dIn = <<>> /\ dOp = "idle" /\ dOut = NoDecode

ExtractIdle == xIn = NoEnvelope /\ xOp = "idle" /\ xOut = Pending

(* the plugin has been initialised by the host *)
ToolsRegistered == registered = ToolNames

Init ==
  /\ requestIdCounter = 0
  /\ calls = <<>>
  /\ now = 0
  /\ microtasks = <<>>
  /\ DecodeIdle
  /\ ExtractIdle
  /\ ToolsRegistered

Next ==
  \/ CallExa
  \/ \E i \in 1..Len(calls), r \in OverlapResponses, s \in BOOLEAN :
       FetchResolve(i, r, s)
  \/ \E i \in 1..Len(calls), e \in OverlapErrors : FetchReject(i, e)
  \/ \E i \in 1..Len(calls), b \in OverlapBodies : TextResolve(i, b)
  \/ \E i \in 1..Len(calls), e \in OverlapErrors : TextReject(i, e)
  \/ \E i \in 1..Len(calls) : TimerFire(i)
  \/ \E i \in 1..Len(calls) : AbortReject(i)
  \/ RunText(OverlapBodies, OverlapErrors)
  \/ RunToolFunction
  \/ RunExecute
  \/ Tick

Spec == Init /\ [][Next]_vars


(* ------------- the decoder applied to every bounded body --------------- *)
LineSet ==
  { <<>>, <<"e">>, <<"1">>, <<"[">>, <<"]">>, <<"{result}">>,
    D(<<>>), D(<<"1">>), D(<<"[">>), D(<<"]">>), D(<<"{error}">>),
    <<"d", "a", "t", "a", ":", "1">>,
    <<" ">> \o D(<<"1">>) }

RECURSIVE JoinLines(_)
JoinLines(lines) ==
  IF Len(lines) = 1 THEN lines[1]
  ELSE lines[1] \o <<NL>> \o JoinLines(Tail(lines))

Bodies ==
  UNION { { JoinLines(ls) : ls \in [1..k -> LineSet] } : k \in 1..MaxLines }

InitDecode ==
  /\ CallsIdle
  /\ ExtractIdle
  /\ ToolsRegistered
  /\ dIn \in Bodies
  /\ dOp = "ready"
  /\ dOut = NoDecode

(* lines 249-255 of callExa applied to the text dIn *)
ApplyDecode ==
  /\ dOp = "ready"
  /\ dOp' = "decode"
  /\ dOut' = DecodeBody(dIn)
  /\ UNCHANGED <<dIn, callVars, extractVars, registered>>

(* parseSSEResponse(dIn), lines 188-210 *)
ApplyParseSSE ==
  /\ dOp = "ready"
  /\ dOp' = "sse"
  /\ dOut' = [completion |-> parseSSEResponse(dIn), sseRan |-> TRUE]
  /\ UNCHANGED <<dIn, callVars, extractVars, registered>>

NextDecode == ApplyDecode \/ ApplyParseSSE

SpecDecode == InitDecode /\ [][NextDecode]_vars

(* ------- extractTextContent applied to every bounded envelope ---------- *)
Items ==
  { [type |-> "text", text |-> <<"a">>],
    [type |-> "text", text |-> <<>>],
    [type |-> "image", text |-> <<"x">>] }

Contents == UNION { [1..k -> Items] : k \in 0..MaxItems }

Results == { [content |-> c] : c \in Contents } \cup { <<>> }

ErrorFields ==
  { [code |-> 400, message |-> <<"Bad request">>],
    [code |-> -32602, message |-> <<>>] }

Envelopes ==
  { [t |-> "obj", jsonrpc |-> "2.0", id |-> 1, result |-> r] :
      r \in Results }
  \cup { [t |-> "obj", jsonrpc |-> "2.0", id |-> 1, error |-> e] :
      e \in ErrorFields }
  \cup { [t |-> "obj", jsonrpc |-> "2.0", id |-> 1, error |-> e,
          result |-> r] : e \in ErrorFields, r \in Results }
  \cup { [t |-> "obj", jsonrpc |-> "2.0", id |-> 1] }

InitExtract ==
  /\ CallsIdle
  /\ DecodeIdle
  /\ ToolsRegistered
  /\ xIn \in Envelopes
  /\ xOp = "ready"
  /\ xOut = Pending

(* extractTextContent(xIn), lines 269-285 *)
ApplyExtract ==
  /\ xOp = "ready"
  /\ xOp' = "extract"
  /\ xOut' = extractTextContent(xIn)
  /\ UNCHANGED <<xIn, callVars, decodeVars, registered>>

NextExtract == ApplyExtract

SpecExtract == InitExtract /\ [][NextExtract]_vars

(* ------------- index.ts: plugin initialisation and execute ------------- *)
InitTools ==
  /\ CallsIdle
  /\ DecodeIdle
  /\ ExtractIdle
  /\ registered = <<>>

(* one turn of the loop of lines 204-208: api.registerTool(tool) *)
RegisterTool ==
  /\ Len(registered) < Len(TOOLS)
  /\ registered' = Append(registered, TOOLS[Len(registered) + 1].name)
  /\ UNCHANGED <<callVars, decodeVars, extractVars>>

(* the params a host can pass to each tool, within its declared type *)
Queries == {"exa", "tla"}

NumResultsValues == {0, 5, DEFAULT_NUM_RESULTS}

StartDates == {"", "2024-01-01T00:00:00.000Z"}

EndDates == {"2024-12-31T00:00:00.000Z"}

(* each object of `objects`, without and with `key` among `values` *)
WithOptional(objects, key, values) ==
  objects \cup { o @@ (key :> v) : o \in objects, v \in values }

AdvancedParams ==
  WithOptional(
    WithOptional(
      WithOptional({ [query |-> q] : q \in Queries },
                   "numResults", NumResultsValues),
      "startPublishedDate", StartDates),
    "endPublishedDate", EndDates)

ParamsOf(fn) ==
  CASE fn = "webSearch" ->
         WithOptional(WithOptional({[query |-> "exa"]},
                                   "numResults", {5}), "type", {"fast"})
    [] fn = "codeSearch" ->
         WithOptional({[query |-> "exa"]}, "tokensNum", {1000})
    [] fn = "companyResearch" ->
         WithOptional({[companyName |-> "exa"]}, "numResults", {5})
    [] fn = "peopleSearch" ->
         WithOptional({[query |-> "exa"]}, "numResults", {5})
    [] fn \in {"twitterSearch", "financialSearch"} -> AdvancedParams

(* the host calls the execute of the k-th tool, once the plugin is set up *)
ExecuteTool(k, params) ==
  /\ Len(registered) = Len(TOOLS)
  /\ Len(calls) = 0
  /\ StartCall(registered[k], params)
  /\ UNCHANGED <<now, microtasks, decodeVars, extractVars, registered>>

NextTools ==
  \/ RegisterTool
  \/ \E k \in 1..Len(registered) :
       \E params \in ParamsOf(ToolFn(registered[k])) : ExecuteTool(k, params)
  \/ \E i \in 1..Len(calls), r \in Responses, s \in BOOLEAN :
       FetchResolve(i, r, s)
  \/ \E i \in 1..Len(calls), e \in TransportErrors : FetchReject(i, e)
  \/ \E i \in 1..Len(calls), b \in CallBodies : TextResolve(i, b)
  \/ \E i \in 1..Len(calls), e \in TransportErrors : TextReject(i, e)
  \/ \E i \in 1..Len(calls) : TimerFire(i)
  \/ \E i \in 1..Len(calls) : AbortReject(i)
  \/ RunText(CallBodies, TransportErrors)
  \/ RunToolFunction
  \/ RunExecute
  \/ Tick

SpecTools == InitTools /\ [][NextTools]_vars

(* the event loop: time passes, a due timer runs its callback, queued      *)
(* continuations run, and the transport rejects an exchange whose signal   *)
(* is aborted; nothing obliges the server to answer                        *)
Fairness ==
  /\ WF_vars(Tick)
  /\ WF_vars(RunText(CallBodies, TransportErrors))
  /\ WF_vars(RunToolFunction)
  /\ WF_vars(RunExecute)
  /\ \A i \in 1..MaxCalls :
       /\ WF_vars(i <= Len(calls) /\ TimerFire(i))
       /\ WF_vars(i <= Len(calls) /\ AbortReject(i))

SpecLive == InitTools /\ [][NextTools]_vars /\ Fairness

(* ============================== claims ================================= *)
CallIds == 1..Len(calls)

(* C1: within one process every call id is a positive integer, no two      *)
(* invocations carry the same id, and an invocation that starts later      *)
(* carries a strictly larger id than every earlier one, whatever state     *)
(* the earlier ones are in.                                                *)
C1_CallIdsUniqueIncreasing ==
  \A i \in CallIds :
    /\ calls[i].id \in Nat \ {0}
    /\ \A j \in CallIds :
         /\ (i < j => calls[i].id < calls[j].id)
         /\ (i # j => calls[i].id # calls[j].id)

C1_Witness ==
  /\ Len(calls) >= 2
  /\ calls[1].pc # "done"
  /\ calls[2].id > calls[1].id

(* C2: when the 30-second timer fires before the response has arrived the  *)
(* exchange is aborted and the call can only end in the Timeout failure,   *)
(* whose message reads "timed out" and the seconds value 30.               *)
C2_TimeoutOnDeadline ==
  \A i \in CallIds :
    calls[i].timer.state = "fired" =>
      /\ calls[i].aborted
      /\ calls[i].pc = "done" =>
           calls[i].outcome =
             Throw(MkError("Error", "Error",
                           <<"Exa request timed out after ", "30", "s">>))

C2_Witness ==
  \E i \in CallIds :
    /\ calls[i].timer.state = "fired"
    /\ calls[i].pc = "done"
    /\ calls[i].outcome.kind = "throw"
    /\ now >= 30000

(* C3: on every exit path of callExa the abort timer is released before    *)
(* the call completes: no finished call has its timer armed, and the abort *)
(* callback never fires for (never aborts) a call that has already ended.  *)
C3_TimerReleasedOnExit ==
  [][\A i \in 1..Len(calls') :
       /\ calls'[i].pc = "done" => calls'[i].timer.state # "armed"
       /\ (i <= Len(calls) /\ calls[i].pc = "done") =>
            /\ calls'[i].timer = calls[i].timer
            /\ calls'[i].aborted = calls[i].aborted]_vars

C3_Witness ==
  \E i \in CallIds :
    /\ calls[i].pc = "done"
    /\ calls[i].decoded
    /\ calls[i].outcome.kind = "throw"
    /\ calls[i].timer.state = "cleared"
    /\ now >= REQUEST_TIMEOUT_MS

(* C4: a response whose status is outside 200..299 makes callExa fail with *)
(* the HttpError carrying the numeric status and the reason phrase, and    *)
(* its body is never read nor decoded; a response inside 200..299 never    *)
(* produces an HttpError.                                                  *)
C4_HttpErrorOnNon2xx ==
  \A i \in CallIds :
    calls[i].response # NoResponse =>
      IF calls[i].response.status \notin 200..299
      THEN /\ calls[i].pc = "done"
           /\ calls[i].outcome =
                Throw(MkError("Error", "Error",
                              <<"HTTP error: ",
                                ToString(calls[i].response.status), " ",
                                calls[i].response.statusText>>))
           /\ ~calls[i].bodyRead
           /\ ~calls[i].decoded
      ELSE calls[i].outcome.kind = "throw" =>
             calls[i].outcome.error.message[1] # "HTTP error: "

C4_Witness ==
  \E i \in CallIds :
    /\ calls[i].response.status = 300
    /\ calls[i].outcome.kind = "throw"
    /\ calls[i].timer.state = "cleared"

(* C5 as stated: a call whose exchange is rejected with an abort (an error *)
(* named AbortError) fails with the Timeout failure whose message contains *)
(* "timed out"; every other caught failure reaches the caller unchanged    *)
(* and is never reported as Timeout.                                       *)
C5_AbortBecomesTimeout ==
  \A i \in CallIds :
    (calls[i].pc = "done" /\ calls[i].outcome.kind = "throw") =>
      /\ calls[i].caught # NoError
      /\ IF calls[i].caught.name = "AbortError"
         THEN calls[i].outcome.error.message[1]
                = "Exa request timed out after "
         ELSE /\ calls[i].outcome = Throw(calls[i].caught)
              /\ calls[i].outcome.error.message[1]
                   # "Exa request timed out after "

(* C5 amended: a call whose exchange is rejected with the abort of the     *)
(* fetch contract (a DOMException named AbortError) fails with the Timeout *)
(* failure whose message contains "timed out"; every other caught failure, *)
(* a rejection named AbortError that is not a DOMException included,       *)
(* reaches the caller unchanged and is never reported as Timeout.          *)
C5_OnlyAbortBecomesTimeout ==
  \A i \in CallIds :
    (calls[i].pc = "done" /\ calls[i].outcome.kind = "throw") =>
      /\ calls[i].caught # NoError
      /\ IF calls[i].caught.cls = "DOMException"
            /\ calls[i].caught.name = "AbortError"
         THEN calls[i].outcome.error.message[1]
                = "Exa request timed out after "
         ELSE /\ calls[i].outcome = Throw(calls[i].caught)
              /\ calls[i].outcome.error.message[1]
                   # "Exa request timed out after "

C5_Witness ==
  \E i \in CallIds :
    /\ calls[i].pc = "done"
    /\ calls[i].rejection.name = "AbortError"
    /\ calls[i].rejection.cls = "DOMException"
    /\ ~calls[i].aborted
    /\ calls[i].timer.state = "cleared"
    /\ calls[i].outcome.error.message[1] = "Exa request timed out after "

(* ---- vocabulary of the decoder claims, stated without the decoder ----- *)
Parses(text) == JSONParse(text).ok

(* the candidates the scan works on: the list parseSSEResponse builds *)
Candidates(text) == DataLines(Split(text))

ParseableCandidates(text) ==
  {k \in 1..Len(Candidates(text)) : Parses(Candidates(text)[k])}

RECURSIVE ConcatInOrder(_, _)
ConcatInOrder(parts, k) ==
  IF k = 0 THEN <<>> ELSE ConcatInOrder(parts, k - 1) \o parts[k]

AllCandidatesConcatenated(text) ==
  ConcatInOrder(Candidates(text), Len(Candidates(text)))

FallbackTaken(text) ==
  /\ ~Parses(text)
  /\ Len(Candidates(text)) > 0
  /\ ParseableCandidates(text) = {}

(* the lines that begin with the marker "data:", whatever follows it *)
MarkerLines(text) ==
  SelectSeq(Split(text), LAMBDA l : StartsWith(l, <<"d", "a", "t", "a", ":">>))

(* C6: if the body parses as one strict JSON document the decoder returns  *)
(* that parsed value directly and does not run the event-stream path; the  *)
(* event-stream path (parseSSEResponse) runs exactly when the strict parse *)
(* fails.                                                                  *)
C6_StrictJsonFirst ==
  dOp = "decode" =>
    /\ Parses(dIn) =>
         dOut = [completion |-> Return(JSONParse(dIn).value),
                 sseRan |-> FALSE]
    /\ dOut.sseRan <=> ~Parses(dIn)

C6_Witness ==
  /\ dOp = "decode"
  /\ Parses(dIn)
  /\ Len(Split(dIn)) > 1
  /\ dOut.completion.kind = "return"
  /\ ~dOut.sseRan

(* C7: parseSSEResponse fails with NoDataField exactly when the body has   *)
(* no line beginning with the "data:" marker, so a body with at least one  *)
(* line beginning with "data:" never fails with NoDataField.               *)
C7_NoDataFieldIffNoMarkerLine ==
  dOp = "sse" =>
    (dOut.completion = Throw(NoDataFieldError)
       <=> Len(MarkerLines(dIn)) = 0)

(* C8: when at least one candidate parses as JSON, parseSSEResponse        *)
(* returns, unchanged, the parseable candidate at the highest position:    *)
(* unparseable candidates after it are skipped and a parseable candidate   *)
(* that has a later parseable candidate is never returned.                 *)
C8_LastParseableCandidate ==
  (dOp = "sse" /\ ParseableCandidates(dIn) # {}) =>
    \E k \in ParseableCandidates(dIn) :
      /\ \A m \in ParseableCandidates(dIn) : m <= k
      /\ dOut.completion = Return(Candidates(dIn)[k])

C8_Witness ==
  /\ dOp = "sse"
  /\ Len(Candidates(dIn)) = 3
  /\ ParseableCandidates(dIn) = {1, 2}
  /\ Candidates(dIn)[1] # Candidates(dIn)[2]
  /\ dOut.completion = Return(Candidates(dIn)[2])

(* C9: when the candidate list is non-empty and no candidate parses as     *)
(* JSON, parseSSEResponse does not fail and returns all candidates         *)
(* concatenated in their original order with no separator.                 *)
C9_ConcatenationFallback ==
  (dOp = "sse" /\ Len(Candidates(dIn)) > 0 /\ ParseableCandidates(dIn) = {})
    => dOut.completion = Return(AllCandidatesConcatenated(dIn))

C9_Witness ==
  /\ dOp = "sse"
  /\ Len(Candidates(dIn)) >= 2
  /\ ParseableCandidates(dIn) = {}
  /\ Candidates(dIn)[1] # Candidates(dIn)[2]
  /\ dOut.completion.kind = "return"
  /\ Len(dOut.completion.value) >= 2

(* C10: whenever the decoder takes the concatenation fallback (no single   *)
(* candidate is valid JSON), the JSON parse one level up in callExa fails, *)
(* so the call ends in the parse failure and never yields a decoded        *)
(* envelope.                                                               *)
C10_FallbackAlwaysUnparseable ==
  \A i \in CallIds :
    (calls[i].decoded /\ FallbackTaken(calls[i].text)) =>
      /\ calls[i].outcome.kind = "throw"
      /\ calls[i].outcome.error.cls = "SyntaxError"

(* ------- vocabulary of the extraction claims, stated on its own -------- *)
RECURSIVE TextsWithBlankLines(_, _)
TextsWithBlankLines(content, k) ==
  IF k = 0 THEN <<>>
  ELSE LET before == TextsWithBlankLines(content, k - 1) IN
       IF content[k].type # "text" THEN before
       ELSE IF \E m \in 1..(k - 1) : content[m].type = "text"
         THEN before \o <<"\n", "\n">> \o content[k].text
       ELSE content[k].text

(* C11: extractTextContent on an envelope that carries an error field      *)
(* fails with the ApiError whose message holds the numeric code and the    *)
(* message text verbatim, whatever other fields (a result with content     *)
(* included) the envelope carries; it never returns text for it.           *)
C11_ErrorFieldGivesApiError ==
  (xOp = "extract" /\ "error" \in DOMAIN xIn) =>
    xOut = Throw(MkError("Error", "Error",
                         <<"Exa API error: ", ToString(xIn.error.code),
                           " - ">> \o xIn.error.message))

C11_Witness ==
  /\ xOp = "extract"
  /\ "error" \in DOMAIN xIn
  /\ "result" \in DOMAIN xIn
  /\ "content" \in DOMAIN xIn.result
  /\ \E k \in 1..Len(xIn.result.content) :
       xIn.result.content[k].type = "text"
  /\ xIn.error.code = 400
  /\ xOut.kind = "throw"

(* C12: on a Success envelope extractTextContent fails with NoContent      *)
(* exactly when the result has no content field; a content field that is   *)
(* present but an empty list is no error and yields the empty string.      *)
C12_NoContentIffContentAbsent ==
  (xOp = "extract" /\ "error" \notin DOMAIN xIn /\ "result" \in DOMAIN xIn)
    => /\ xOut = Throw(MkError("Error", "Error",
                               <<"No content in response">>))
            <=> "content" \notin DOMAIN xIn.result
       /\ ("content" \in DOMAIN xIn.result /\ xIn.result.content = <<>>)
            => xOut = Return(<<>>)

C12_Witness ==
  /\ xOp = "extract"
  /\ "error" \notin DOMAIN xIn
  /\ "result" \in DOMAIN xIn
  /\ "content" \in DOMAIN xIn.result
  /\ xIn.result.content = <<>>
  /\ xOut = Return(<<>>)

(* C13: on a Success envelope with a content list extractTextContent       *)
(* returns the text fields of exactly the items whose type is "text", in   *)
(* their original order, with exactly one blank line between consecutive   *)
(* ones; items of any other type contribute nothing and cause no error.    *)
C13_TextItemsJoinedByBlankLine ==
  (xOp = "extract" /\ "error" \notin DOMAIN xIn /\ "result" \in DOMAIN xIn
     /\ "content" \in DOMAIN xIn.result)
    => xOut = Return(TextsWithBlankLines(xIn.result.content,
                                         Len(xIn.result.content)))

C13_Witness ==
  /\ xOp = "extract"
  /\ "error" \notin DOMAIN xIn
  /\ "result" \in DOMAIN xIn
  /\ "content" \in DOMAIN xIn.result
  /\ Len(xIn.result.content) = 3
  /\ xIn.result.content[1].type = "text"
  /\ xIn.result.content[2].type = "image"
  /\ xIn.result.content[3].type = "text"
  /\ xOut = Return(<<"a", "\n", "\n", "a">>)

(* ----- the per-call state machine of the specification, section 4.5 ---- *)
(* the tool function of the call has settled; its execute has settled *)
Ended(call) == call.result.kind # "pending"

Answered(call) == call.host.kind # "pending"

FirstWords(completion) ==
  IF completion.kind = "throw" THEN completion.error.message[1] ELSE ""

(* an envelope of the protocol: an object whose error field, if any, is   *)
(* an object and whose content list, if any, holds objects                 *)
WellFormedEnvelope(value) ==
  /\ value.t = "obj"
  /\ "error" \in DOMAIN value => ~IsNull(value.error)
  /\ ("error" \notin DOMAIN value /\ "result" \in DOMAIN value
        /\ "content" \in DOMAIN value.result) =>
       \A k \in 1..Len(value.result.content) :
         ~IsNull(value.result.content[k])

TerminalState(call) ==
  IF call.result.kind = "return" THEN "TextExtracted"
  ELSE IF FirstWords(call.result) = "Exa request timed out after "
    THEN "TimedOut"
  ELSE IF FirstWords(call.result) = "HTTP error: " THEN "HttpError"
  ELSE IF call.decoded /\ call.outcome.kind = "throw" THEN "Unparseable"
  ELSE IF FirstWords(call.result) = "Exa API error: " THEN "ApiError"
  ELSE IF FirstWords(call.result) = "No content in response"
    THEN "NoContent"
  ELSE IF ~call.decoded /\ call.rejection # NoError
    THEN "TransportFailure"
  ELSE IF call.outcome.kind = "return"
          /\ call.result.error.cls = "TypeError"
    THEN "MalformedEnvelope"
  ELSE "Unknown"

SpecifiedTerminalStates ==
  {"TimedOut", "HttpError", "Unparseable", "ApiError", "NoContent",
   "TextExtracted"}

(* C14 as stated: each invocation issues exactly one HTTP exchange and     *)
(* ends in one of TimedOut, HttpError, Unparseable, ApiError, NoContent,   *)
(* TextExtracted.                                                          *)
C14_EndsInSpecifiedState ==
  \A i \in CallIds :
    /\ calls[i].sends = 1
    /\ Ended(calls[i]) =>
         TerminalState(calls[i]) \in SpecifiedTerminalStates

(* C14 amended: each invocation issues exactly one HTTP exchange and ends  *)
(* in exactly one terminal state: TimedOut, HttpError, Unparseable,        *)
(* ApiError, NoContent, TextExtracted, or a failure outside that list (a   *)
(* rejection of the exchange other than a DOMException named AbortError,   *)
(* rethrown unchanged, or the TypeError extractTextContent raises on a     *)
(* decoded JSON value that is not a well-formed envelope); once a call has *)
(* reached a terminal state it takes no further step, and no failure state *)
(* is ever followed by a second send.                                      *)
C14_OneExchangeOneTerminalState ==
  [][\A i \in 1..Len(calls') :
       /\ calls'[i].sends = 1
       /\ Ended(calls'[i]) => calls'[i].pc = "done"
       /\ Ended(calls'[i]) =>
            /\ TerminalState(calls'[i]) \in
                 SpecifiedTerminalStates
                   \cup {"TransportFailure", "MalformedEnvelope"}
            /\ TerminalState(calls'[i]) = "TransportFailure" =>
                 /\ ~(calls'[i].rejection.cls = "DOMException"
                        /\ calls'[i].rejection.name = "AbortError")
                 /\ calls'[i].result = Throw(calls'[i].rejection)
            /\ TerminalState(calls'[i]) = "MalformedEnvelope" =>
                 ~WellFormedEnvelope(calls'[i].outcome.value)
            /\ (calls'[i].outcome.kind = "return"
                  /\ WellFormedEnvelope(calls'[i].outcome.value)) =>
                 TerminalState(calls'[i]) \in
                   {"ApiError", "NoContent", "TextExtracted"}
       /\ (i <= Len(calls) /\ calls[i].pc = "done") =>
            [calls'[i] EXCEPT !.result = calls[i].result,
                              !.host = calls[i].host] = calls[i]
       /\ (i <= Len(calls) /\ Ended(calls[i])) =>
            calls'[i].result = calls[i].result
       /\ (i <= Len(calls) /\ Answered(calls[i])) =>
            calls'[i] = calls[i]]_vars

C14_Witness ==
  \E i \in CallIds :
    /\ Answered(calls[i])
    /\ TerminalState(calls[i]) = "MalformedEnvelope"
    /\ calls[i].outcome.value.t = "obj"
    /\ calls[i].sends = 1

(* the call passed every stage: a 2xx response, a body decoded to an       *)
(* envelope, no error field, a content field                               *)
PassedEveryStage(call) ==
  /\ call.response.status \in 200..299
  /\ call.decoded
  /\ call.outcome.kind = "return"
  /\ call.outcome.value.t = "obj"
  /\ "error" \notin DOMAIN call.outcome.value
  /\ "result" \in DOMAIN call.outcome.value
  /\ "content" \in DOMAIN call.outcome.value.result

(* C15: each tool function returns text only when the call passed every    *)
(* stage (a 2xx response, a body decoded to an envelope, no error field,   *)
(* a content field), and then the text is that of the envelope's text      *)
(* items; in every other case it fails with the first failure encountered  *)
(* (the failure of callExa unchanged, else that of extractTextContent), so *)
(* a failure is never turned into a success value.                         *)
C15_TextOnlyWhenEveryStagePassed ==
  \A i \in CallIds :
    Ended(calls[i]) =>
      /\ calls[i].pc = "done"
      /\ calls[i].result.kind = "return" => PassedEveryStage(calls[i])
      /\ ~PassedEveryStage(calls[i]) => calls[i].result.kind = "throw"
      /\ (PassedEveryStage(calls[i])
            /\ WellFormedEnvelope(calls[i].outcome.value)) =>
           LET content == calls[i].outcome.value.result.content IN
             calls[i].result =
               Return(TextsWithBlankLines(content, Len(content)))
      /\ calls[i].outcome.kind = "throw" =>
           calls[i].result = calls[i].outcome
      /\ (calls[i].response # NoResponse
            /\ calls[i].response.status \notin 200..299) =>
           FirstWords(calls[i].result) = "HTTP error: "
      /\ (calls[i].decoded /\ calls[i].text = <<"{result}">>) =>
           calls[i].result = Return(<<"ok">>)
      /\ (calls[i].decoded /\ calls[i].text = <<"{error}", "\n">>) =>
           calls[i].result =
             Throw(MkError("Error", "Error",
                           <<"Exa API error: ", "400", " - ",
                             "Bad request">>))

C15_Witness ==
  \E i \in CallIds :
    /\ calls[i].tool = "exa_financial_report_search"
    /\ calls[i].sseRan
    /\ Ended(calls[i])
    /\ calls[i].result = Return(<<"ok">>)

(* C16: the execute function of every registered tool never fails towards  *)
(* the host: when the core call succeeds it returns exactly one text item  *)
(* holding the core's text unchanged and no isError flag; when the core    *)
(* call fails it returns exactly one text item reading "Error: " followed  *)
(* by the failure message, with isError set; isError is set if and only if *)
(* the core call failed.                                                   *)
C16_ExecuteNeverFails ==
  \A i \in CallIds :
    /\ calls[i].tool \in
         {"exa_web_search", "exa_code_search", "exa_company_research",
          "exa_twitter_search", "exa_people_search",
          "exa_financial_report_search"}
    /\ calls[i].host.kind \in {"pending", "return"}
    /\ Answered(calls[i]) =>
         /\ Ended(calls[i])
         /\ Len(calls[i].host.value.content) = 1
         /\ calls[i].host.value.content[1].type = "text"
         /\ ("isError" \in DOMAIN calls[i].host.value)
              <=> (calls[i].result.kind = "throw")
         /\ calls[i].result.kind = "return" =>
              calls[i].host.value.content[1].text = calls[i].result.value
         /\ calls[i].result.kind = "throw" =>
              /\ calls[i].host.value.isError = TRUE
              /\ calls[i].host.value.content[1].text =
                   <<"Error: ">> \o calls[i].result.error.message

C16_Witness ==
  \E i \in CallIds :
    /\ calls[i].tool = "exa_people_search"
    /\ Answered(calls[i])
    /\ calls[i].host.value.content[1].text =
         <<"Error: ", "Exa API error: ", "400", " - ", "Bad request">>
    /\ calls[i].host.value.isError

(* C17: plugin initialisation calls registerTool exactly once for each of  *)
(* the six tools, in the order exa_web_search, exa_code_search,            *)
(* exa_company_research, exa_twitter_search, exa_people_search,            *)
(* exa_financial_report_search; no name is registered twice, none skipped. *)
C17_SixToolsInOrder ==
  LET expected == << "exa_web_search", "exa_code_search",
                     "exa_company_research", "exa_twitter_search",
                     "exa_people_search", "exa_financial_report_search" >>
  IN /\ Len(registered) <= 6
     /\ registered = SubSeq(expected, 1, Len(registered))
     /\ \A a, b \in 1..Len(registered) :
          a # b => registered[a] # registered[b]
     /\ (Len(calls) > 0 \/ ~ENABLED RegisterTool) => registered = expected

C17_Witness ==
  /\ Len(registered) = 6
  /\ registered[6] = "exa_financial_report_search"
  /\ Len(calls) = 1

(* C18: every invocation eventually reaches a terminal state: a call waits *)
(* only for the HTTP exchange or for its deadline, so with a fair event    *)
(* loop and a transport that observes the abort signal no call stays       *)
(* pending after its 30-second deadline has fired.                         *)
C18_EveryCallTerminates ==
  \A i \in 1..MaxCalls :
    (Len(calls) >= i)
      ~> (Len(calls) >= i /\ calls[i].pc = "done" /\ Answered(calls[i]))

C18_Witness ==
  \E i \in CallIds :
    /\ Answered(calls[i])
    /\ calls[i].bodyRead
    /\ calls[i].timer.state = "fired"
    /\ calls[i].aborted

(* The same call run alone: alone in its process (call id 1), given the    *)
(* arguments of `call` and what the exchange of `call` itself delivered    *)
(* (its response, its body, its rejection, the firing of its own timer),   *)
(* taken as far as `call` has got.                                         *)
RunAlone(call) ==
  LET ownTimerFired == call.timer.state = "fired"
      started == NewCall(1, call.tool, call.params)
      timedOut(c) == Failed([c EXCEPT !.aborted = TRUE], AbortError)
      fetched ==
        IF call.response # NoResponse
        THEN ResponseReceived(started, call.response)
        ELSE IF call.rejection # NoError
        THEN Rejected(started, call.rejection)
        ELSE IF ownTimerFired THEN timedOut(started)
        ELSE started
      settled ==
        IF fetched.pc # "text" THEN fetched
        ELSE IF call.decoded THEN BodyReceived(fetched, call.text)
        ELSE IF call.rejection # NoError
        THEN Rejected(fetched, call.rejection)
        ELSE IF ownTimerFired THEN timedOut(fetched)
        ELSE fetched
      ended == IF Ended(call) THEN ToolFunction(settled) ELSE settled
  IN IF Answered(call) THEN WrapExecute(ended) ELSE ended

(* C19: concurrent invocations are independent: in any interleaving a step *)
(* changes at most one call, the signal of a call is aborted by its own    *)
(* timer only, and what a call sent and how it ended (the outcome of       *)
(* callExa, the text or failure of the tool function, the result of        *)
(* execute) are those of the same call run alone, the call id apart.       *)
C19_CallsIndependent ==
  /\ [](\A i \in CallIds :
          /\ calls[i].aborted => calls[i].timer.state = "fired"
          /\ calls[i].pc = "done" =>
               LET alone == RunAlone(calls[i]) IN
                 /\ alone.pc = "done"
                 /\ calls[i].outcome = alone.outcome
                 /\ calls[i].result = alone.result
                 /\ calls[i].host = alone.host
                 /\ [calls[i].sent EXCEPT !.body.id = 1] = alone.sent)
  /\ [][\A i \in 1..Len(calls) :
          calls'[i] # calls[i] =>
            \A j \in 1..Len(calls) : j # i => calls'[j] = calls[j]]_vars

C19_Witness ==
  \E i, j \in CallIds :
    /\ i < j
    /\ calls[i].tool = calls[j].tool
    /\ Answered(calls[j]) /\ calls[j].result.kind = "return"
    /\ ~calls[j].aborted
    /\ Answered(calls[i]) /\ calls[i].timer.state = "fired"
    /\ calls[i].bodyRead
    /\ calls[j].id = 2

(* C20: the call-id counter changes only at the start of callExa, by       *)
(* exactly one per invocation however the invocation ends; it is never     *)
(* reset or decreased, and a step that runs the decoder (parseSSEResponse) *)
(* or extractTextContent leaves the counter, the clock and every other     *)
(* call unchanged.                                                         *)
C20_CounterOnlyAtCallStart ==
  [][/\ requestIdCounter' \in {requestIdCounter, requestIdCounter + 1}
     /\ (requestIdCounter' = requestIdCounter + 1)
          <=> (Len(calls') = Len(calls) + 1)
     /\ requestIdCounter' = Len(calls')
     /\ \A i \in 1..Len(calls) :
          ((calls'[i].decoded /\ ~calls[i].decoded)
             \/ (Ended(calls'[i]) /\ ~Ended(calls[i]))) =>
            /\ requestIdCounter' = requestIdCounter
            /\ now' = now
            /\ registered' = registered
            /\ \A j \in 1..Len(calls) : j # i => calls'[j] = calls[j]]_vars

C20_Witness ==
  /\ requestIdCounter = 2
  /\ Len(calls) = 2
  /\ Answered(calls[1]) /\ calls[1].result.kind = "throw"
  /\ Answered(calls[2]) /\ calls[2].sseRan
  /\ calls[2].result.kind = "return"

AdvancedTools == {"exa_twitter_search", "exa_financial_report_search"}

FixedCategory(tool) ==
  IF tool = "exa_twitter_search" THEN "tweet" ELSE "financial report"

(* C21: twitterSearch and financialSearch always send the remote tool      *)
(* web_search_advanced_exa with their fixed category ("tweet", "financial  *)
(* report") and the caller's query; the sent numResults is the caller's    *)
(* value when given and 10 when omitted; startPublishedDate and            *)
(* endPublishedDate are in the sent arguments exactly when the caller      *)
(* supplied them, with the caller's value.                                 *)
C21_AdvancedSearchArguments ==
  \A i \in CallIds :
    LET given == calls[i].params
        remote == calls[i].sent.body.params
        args == remote.arguments
    IN calls[i].tool \in AdvancedTools =>
         /\ remote.name = "web_search_advanced_exa"
         /\ args.category = FixedCategory(calls[i].tool)
         /\ args.query = given.query
         /\ args.numResults =
              IF "numResults" \in DOMAIN given THEN given.numResults
              ELSE DEFAULT_NUM_RESULTS
         /\ \A key \in {"startPublishedDate", "endPublishedDate"} :
              /\ key \in DOMAIN args <=> key \in DOMAIN given
              /\ key \in DOMAIN given => args[key] = given[key]

C21_Witness ==
  \E i \in CallIds :
    /\ calls[i].tool = "exa_twitter_search"
    /\ DOMAIN calls[i].params = {"query", "startPublishedDate"}
    /\ calls[i].params.startPublishedDate = ""
    /\ DOMAIN calls[i].sent.body.params.arguments =
         {"query", "category", "numResults", "startPublishedDate"}
    /\ calls[i].sent.body.params.arguments.numResults = DEFAULT_NUM_RESULTS
    /\ calls[i].pc = "done"

(* the identifiers listed by the tools parameter of a request URL *)
UrlAllowlist(url) ==
  LET q == IndexOf(url, "?tools=", 1) IN
  IF q = 0 THEN {} ELSE { url[k] : k \in (q + 1)..Len(url) } \ {","}

(* C22: every request sent by any of the six tool functions uses the       *)
(* method "tools/call" and names a remote tool that is one of the five     *)
(* identifiers of the allowlist carried by the URL the request is sent to. *)
C22_RemoteToolInAllowlist ==
  \A i \in CallIds :
    /\ calls[i].sent.body.method = "tools/call"
    /\ Cardinality(UrlAllowlist(calls[i].sent.url)) = 5
    /\ calls[i].sent.body.params.name \in UrlAllowlist(calls[i].sent.url)

C22_Witness ==
  \E i \in CallIds :
    /\ calls[i].tool = "exa_financial_report_search"
    /\ calls[i].sent.body.params.name = "web_search_advanced_exa"
    /\ calls[i].sent.body.params.name \in UrlAllowlist(calls[i].sent.url)
    /\ calls[i].sent.body.id = 1
    /\ calls[i].bodyRead
====
